---- MODULE Spec2Model ----
(***************************************************************************)
(* Model of app.py: the stop-word loader, the text acquirer, the word      *)
(* frequency analysis and the chart adapter of the Streamlit application.  *)
(*                                                                         *)
(* Strings are sequences of character codes: 0 is a whitespace character,  *)
(* a code >= 1 is a letter, digit or ideograph, a negative code is any     *)
(* other character ('<', '>' and punctuation).                             *)
(***************************************************************************)
EXTENDS Integers, Sequences, FiniteSets, TLC

VARIABLES pc, stopfile, stopwords, url, min_freq, selected_chart, event,
          response, text, top20_words, all_words, display, calls, seen

vars == <<pc, stopfile, stopwords, url, min_freq, selected_chart, event,
          response, text, top20_words, all_words, display, calls, seen>>

\* ---------------------------------------------------------------- bounds
MaxLines == 2
MaxDistinct == 22
MaxTail == 2
MaxMinFreq == 3

\* ------------------------------------------------------------ characters
SP == 0
PUNCT == -1
LT == -2
GT == -3

Min(S) == CHOOSE x \in S : \A y \in S : x <= y
Max(S) == CHOOSE x \in S : \A y \in S : x >= y
Range(s) == {s[i] : i \in 1..Len(s)}
SeqsUpTo(S, n) == UNION {[1..k -> S] : k \in 0..n}

\* str.strip(): whitespace removed at both ends
RECURSIVE lstrip(_)
lstrip(s) ==
    IF s # <<>> /\ Head(s) = SP THEN lstrip(Tail(s)) ELSE s

RECURSIVE rstrip(_)
rstrip(s) ==
    IF s # <<>> /\ s[Len(s)] = SP THEN rstrip(SubSeq(s, 1, Len(s) - 1)) ELSE s

strip(s) == rstrip(lstrip(s))

\* the slice s[:n] of a sequence, n >= 0: it stops at the end of s
slice_to(s, n) == [i \in 1..(IF n < Len(s) THEN n ELSE Len(s)) |-> s[i]]

\* ------------------------------------------------------- load_stopwords
\* the two literal sets of load_stopwords; ideograph k of the longer
\* literal has code 100 + k
DefaultNotFound == {<<100 + k>> : k \in 1..14}

DefaultReadError == {<<100 + k>> : k \in 1..10}

\* the for loop over the lines of the file
RECURSIVE read_lines(_, _)
read_lines(lines, acc) ==
    IF lines = <<>> THEN acc
    ELSE LET word == strip(Head(lines))
         IN  read_lines(Tail(lines), IF word # <<>> THEN acc \cup {word} ELSE acc)

\* f.kind is "ok" or the exception open()/iteration raises; f.lines are the
\* lines read before it was raised
load_stopwords(f) ==
    IF f.kind = "ok"
    THEN [stopwords |-> read_lines(f.lines, {}), warnings |-> <<>>]
    ELSE IF f.kind = "FileNotFoundError"
    THEN [stopwords |-> DefaultNotFound,
          warnings |-> <<[el |-> "warning", msg |-> "stopwords_not_found",
                          cause |-> ""]>>]
    ELSE [stopwords |-> DefaultReadError,
          warnings |-> <<[el |-> "warning", msg |-> "stopwords_read_failed",
                          cause |-> f.kind]>>]

\* lines a stopwords.txt may hold
LineVocab == { <<>>, <<SP>>, <<1, 2>>, <<SP, 1, 2, SP>>, <<3>> }

StopFiles ==
    {[kind |-> "ok", lines |-> l] : l \in SeqsUpTo(LineVocab, MaxLines)}
    \cup {[kind |-> "UnicodeDecodeError", lines |-> l] : l \in SeqsUpTo(LineVocab, MaxLines)}
    \cup {[kind |-> k, lines |-> <<>>] : k \in {"FileNotFoundError", "PermissionError"}}

\* stopwords.txt as it may lie on disk during one session of the application
SessionStopFiles ==
    { [kind |-> "FileNotFoundError", lines |-> <<>>],
      [kind |-> "UnicodeDecodeError", lines |-> <<<<1, 2>>>>],
      [kind |-> "ok", lines |-> <<>>],
      [kind |-> "ok", lines |-> <<<<SP, 1, 2, SP>>, <<SP>>>>] }

\* ------------------------------------------------- fetch_and_clean_text
NoText == [isNone |-> TRUE, val |-> <<>>]
NoResponse == [kind |-> "none", body |-> <<>>]

\* re.sub(r"<[^>]+>", "", text): a '<', one or more characters other than
\* '>', and the first '>' after them are removed, scanning left to right
RECURSIVE remove_tags(_)
remove_tags(s) ==
    IF s = <<>> THEN <<>>
    ELSE LET gts == {j \in 2..Len(s) : s[j] = GT}
         IN  IF Head(s) = LT /\ gts # {} /\ Min(gts) >= 3
             THEN remove_tags(SubSeq(s, Min(gts) + 1, Len(s)))
             ELSE <<Head(s)>> \o remove_tags(Tail(s))

\* re.sub(r"[^一-龥a-zA-Z0-9]", " ", text)
replace_non_word(s) == [i \in 1..Len(s) |-> IF s[i] >= 1 THEN s[i] ELSE SP]

\* re.sub(r"\s+", " ", text)
RECURSIVE collapse_spaces(_)
collapse_spaces(s) ==
    IF Len(s) < 2 THEN s
    ELSE IF s[1] = SP /\ s[2] = SP THEN collapse_spaces(Tail(s))
    ELSE <<Head(s)>> \o collapse_spaces(Tail(s))

\* mutant: the failure is swallowed and nothing is reported
fetch_and_clean_text_silent(resp) ==
    IF resp.kind = "ok"
    THEN [text |-> [isNone |-> FALSE,
                    val |-> strip(collapse_spaces(replace_non_word(remove_tags(resp.body))))],
          errors |-> <<>>]
    ELSE [text |-> [isNone |-> FALSE, val |-> <<1, 2>>], errors |-> <<>>]

\* resp.kind is "ok" (resp.body is the visible text of the page body) or the
\* exception raised by the request or by the parse of the page
fetch_and_clean_text(resp) ==
    IF resp.kind = "ok"
    THEN [text |-> [isNone |-> FALSE,
                    val |-> strip(collapse_spaces(replace_non_word(remove_tags(resp.body))))],
          errors |-> <<>>]
    ELSE [text |-> NoText,
          errors |-> <<[el |-> "error", msg |-> "fetch_failed", cause |-> resp.kind]>>]

\* ------------------------------------------------------ get_word_counts
TopK == 20

\* jieba.lcut on cleaned text: the tokens cover the text in reading order;
\* a run of letters and digits is one token, a blank is a token of its own
RECURSIVE lcut(_)
lcut(s) ==
    IF s = <<>> THEN <<>>
    ELSE IF Head(s) = SP THEN << <<SP>> >> \o lcut(Tail(s))
    ELSE LET sps == {i \in 1..Len(s) : s[i] = SP}
             n == IF sps = {} THEN Len(s) ELSE Min(sps) - 1
         IN  << SubSeq(s, 1, n) >> \o lcut(SubSeq(s, n + 1, Len(s)))

\* mutant: words of one character are kept
keep_word_any_length(word) == word \notin stopwords

\* the condition of the list comprehension, lines 58-59
keep_word(word) == Len(word) >= 2 /\ word \notin stopwords

filter_words(tokens) == SelectSeq(tokens, keep_word)

\* Counter(words): a dict in insertion order, one <<word, count>> per key
CounterAdd(c, w) ==
    IF \E i \in 1..Len(c) : c[i][1] = w
    THEN [i \in 1..Len(c) |-> IF c[i][1] = w THEN <<w, c[i][2] + 1>> ELSE c[i]]
    ELSE Append(c, <<w, 1>>)

RECURSIVE CounterFrom(_, _)
CounterFrom(words, c) ==
    IF words = <<>> THEN c ELSE CounterFrom(Tail(words), CounterAdd(c, Head(words)))

Counter(words) == CounterFrom(words, <<>>)

\* mutant: an item goes in front of the items of equal count
InsertByCount_unstable(sorted, item) ==
    LET k == Cardinality({i \in 1..Len(sorted) : sorted[i][2] > item[2]})
    IN  SubSeq(sorted, 1, k) \o <<item>> \o SubSeq(sorted, k + 1, Len(sorted))

\* sorted(items, key=itemgetter(1), reverse=True): stable, so an item goes
\* behind every item already placed whose count is not smaller
InsertByCount(sorted, item) ==
    LET k == Cardinality({i \in 1..Len(sorted) : sorted[i][2] >= item[2]})
    IN  SubSeq(sorted, 1, k) \o <<item>> \o SubSeq(sorted, k + 1, Len(sorted))

RECURSIVE SortedFrom(_, _)
SortedFrom(items, sorted) ==
    IF items = <<>> THEN sorted
    ELSE SortedFrom(Tail(items), InsertByCount(sorted, Head(items)))

\* mutant: the items stay in insertion order
most_common_unsorted(counter) == counter

most_common(counter) == SortedFrom(counter, <<>>)

\* line 63
at_least(word_counts, mf) == SelectSeq(word_counts, LAMBDA item : item[2] >= mf)

\* mutant: the view is not cut
top20_unsliced(word_counts) == word_counts

\* word_counts[:20]
top20(word_counts) == slice_to(word_counts, TopK)

get_word_counts(t, mf) ==
    LET words == filter_words(lcut(t))
        word_counts == at_least(most_common(Counter(words)), mf)
    IN  [top20 |-> top20(word_counts), all |-> word_counts]

\* --------------------------------------------------------- render_chart
RadarAxes == 6

ChartTypes == {"WordCloud", "Bar", "Line", "Pie", "Radar", "Scatter", "Funnel"}

zip(a, b) == [i \in 1..Min({Len(a), Len(b)}) |-> <<a[i], b[i]>>]

\* the indicators of add_schema, line 106
radar_schema(words, counts) ==
    LET axes == slice_to(words, RadarAxes)
    IN  [i \in 1..Len(axes) |-> [name |-> axes[i], max_ |-> Max(Range(counts))]]

\* mutant: every count is plotted
radar_data_all(counts) == << counts >>

\* the series of the radar chart, line 107
radar_data(counts) == << slice_to(counts, RadarAxes) >>

\* the elements render_chart puts on the page
render_chart(chart_type, word_data) ==
    LET words == [i \in 1..Len(word_data) |-> word_data[i][1]]
        counts == [i \in 1..Len(word_data) |-> word_data[i][2]]
    IN  IF words = <<>>
        THEN <<[el |-> "warning", msg |-> "no_data", cause |-> ""]>>
        ELSE <<[el |-> "chart",
                chart |->
                  CASE chart_type = "WordCloud" ->
                         [type |-> "WordCloud", data |-> zip(words, counts)]
                    [] chart_type = "Bar" ->
                         [type |-> "Bar", xaxis |-> words, yaxis |-> counts]
                    [] chart_type = "Line" ->
                         [type |-> "Line", xaxis |-> words, yaxis |-> counts]
                    [] chart_type = "Pie" ->
                         [type |-> "Pie", data |-> zip(words, counts)]
                    [] chart_type = "Radar" ->
                         [type |-> "Radar", schema |-> radar_schema(words, counts),
                          data |-> radar_data(counts)]
                    [] chart_type = "Scatter" ->
                         [type |-> "Scatter", xaxis |-> words, yaxis |-> counts]
                    [] chart_type = "Funnel" ->
                         [type |-> "Funnel", data |-> zip(words, counts)]]>>

\* ----------------------------------------------------------------- main
SliderMin == 1
SliderMax == 10
PreviewLen == 1000

Urls == {"u1", "u2"}

\* what one request may bring back: the visible text of a page, or a failure
Responses ==
    {[kind |-> "ok", body |-> b] :
        b \in { <<PUNCT, SP, PUNCT>>,
                <<3, SP, 4, PUNCT, 3>>,
                <<1, 2>>,
                <<LT, 5, 5, GT, 1, 2, PUNCT, 3, 4, SP, SP, 3, 4, LT, GT, 6>> }}
    \cup {[kind |-> k, body |-> <<>>] : k \in {"Timeout", "AttributeError"}}

\* st.expander(...).write(text[:1000] + "..." if len(text) > 1000 else text)
preview(t) == IF Len(t) > PreviewLen THEN slice_to(t, PreviewLen) \o <<PUNCT, PUNCT, PUNCT>> ELSE t

\* the body of main(): what one run of it fetches, computes and shows.
\* mf and chart_type are the values the slider and the selectbox return.
main(u, mf, chart_type, resp) ==
    IF u = ""
    THEN [text |-> NoText, top20 |-> <<>>, all |-> <<>>, shown |-> <<>>,
          calls |-> {}, widgets |-> FALSE]
    ELSE LET f == fetch_and_clean_text(resp)
         IN  IF f.text.isNone \/ f.text.val = <<>>
             THEN [text |-> f.text, top20 |-> <<>>, all |-> <<>>, shown |-> f.errors,
                   calls |-> {"fetch_and_clean_text", "requests.get"}, widgets |-> FALSE]
             ELSE LET wc == get_word_counts(f.text.val, mf)
                  IN  [text |-> f.text, top20 |-> wc.top20, all |-> wc.all,
                       shown |-> <<[el |-> "success"],
                                   [el |-> "expander", text |-> preview(f.text.val)],
                                   [el |-> "slider", value |-> mf],
                                   [el |-> "selectbox", value |-> chart_type],
                                   [el |-> "table",
                                    words |-> [i \in 1..Len(wc.top20) |-> wc.top20[i][1]],
                                    counts |-> [i \in 1..Len(wc.top20) |-> wc.top20[i][2]]]>>
                                 \o render_chart(chart_type, wc.top20),
                       calls |-> {"fetch_and_clean_text", "requests.get", "get_word_counts",
                                 "render_chart"},
                       widgets |-> TRUE]

\* ---------------------------------------------------- the script's steps
\* line 31: stopwords = load_stopwords()
LoadStopwords ==
    /\ pc = "load"
    /\ LET r == load_stopwords(stopfile)
       IN  /\ stopwords' = r.stopwords
           /\ display' = r.warnings
    /\ calls' = {"load_stopwords"}
    /\ pc' = "main"
    /\ UNCHANGED <<stopfile, url, min_freq, selected_chart, event, response,
                   text, top20_words, all_words, seen>>

\* line 162: main(), with the answer the request of this run gets.  A widget
\* main() does not create in a run loses its value and starts again from
\* its default (value=1, first option).
Main ==
    /\ pc = "main"
    /\ \E resp \in (IF url = "" THEN {NoResponse} ELSE Responses) :
         LET r == main(url, min_freq, selected_chart, resp)
         IN  /\ response' = resp
             /\ text' = r.text
             /\ top20_words' = r.top20
             /\ all_words' = r.all
             /\ display' = display \o r.shown
             /\ calls' = calls \cup r.calls
             /\ seen' = IF r.widgets THEN seen \cup {url} ELSE seen
             /\ min_freq' = IF r.widgets THEN min_freq ELSE SliderMin
             /\ selected_chart' = IF r.widgets THEN selected_chart ELSE "WordCloud"
    /\ pc' = "idle"
    /\ UNCHANGED <<stopfile, stopwords, url, event>>

Shown(kind) == \E i \in 1..Len(display) : display[i].el = kind

\* the user types a URL into the text input: the script runs again
SubmitUrl ==
    /\ pc = "idle"
    /\ \E u \in Urls \cup {""} :
         /\ u # url
         /\ url' = u
    /\ event' = "url"
    /\ pc' = "load"
    /\ UNCHANGED <<stopfile, stopwords, min_freq, selected_chart, response,
                   text, top20_words, all_words, display, calls, seen>>

\* the user moves the slider: the script runs again
SetMinFreq ==
    /\ pc = "idle"
    /\ Shown("slider")
    /\ \E m \in SliderMin..SliderMax :
         /\ m # min_freq
         /\ min_freq' = m
    /\ event' = "min_freq"
    /\ pc' = "load"
    /\ UNCHANGED <<stopfile, stopwords, url, selected_chart, response,
                   text, top20_words, all_words, display, calls, seen>>

\* the user picks a chart type in the sidebar: the script runs again
SelectChart ==
    /\ pc = "idle"
    /\ Shown("selectbox")
    /\ \E c \in ChartTypes :
         /\ c # selected_chart
         /\ selected_chart' = c
    /\ event' = "chart"
    /\ pc' = "load"
    /\ UNCHANGED <<stopfile, stopwords, url, min_freq, response,
                   text, top20_words, all_words, display, calls, seen>>

\* --------------------------------------- specification: the application
Init ==
    /\ pc = "load"
    /\ stopfile \in SessionStopFiles
    /\ stopwords = {}
    /\ url = ""
    /\ min_freq = SliderMin
    /\ selected_chart = "WordCloud"
    /\ event = "start"
    /\ response = NoResponse
    /\ text = NoText
    /\ top20_words = <<>>
    /\ all_words = <<>>
    /\ display = <<>>
    /\ calls = {}
    /\ seen = {}

Next == LoadStopwords \/ Main \/ SubmitUrl \/ SetMinFreq \/ SelectChart

Spec == Init /\ [][Next]_vars

\* ------------------------------------------------ specification: loader
InitLoad ==
    /\ pc = "load"
    /\ stopfile \in StopFiles
    /\ stopwords = {}
    /\ url = ""
    /\ min_freq = 1
    /\ selected_chart = "WordCloud"
    /\ event = "start"
    /\ response = NoResponse
    /\ text = NoText
    /\ top20_words = <<>>
    /\ all_words = <<>>
    /\ display = <<>>
    /\ calls = {}
    /\ seen = {}

NextLoad == LoadStopwords

SpecLoad == InitLoad /\ [][NextLoad]_vars

\* ------------------------------------- specification: the analysis alone
\* the words of the analysed texts: Word(0), Word(1), ... are distinct words
\* of two characters
Word(i) == <<1 + (i \div 6), 1 + (i % 6)>>

Distinct(n) == [i \in 1..n |-> Word(i - 1)]

TailVocab == {Word(1), Word(6), <<3>>}

RECURSIVE JoinWords(_)
JoinWords(ws) ==
    IF ws = <<>> THEN <<>>
    ELSE IF Len(ws) = 1 THEN Head(ws)
    ELSE Head(ws) \o <<SP>> \o JoinWords(Tail(ws))

\* cleaned texts: up to MaxDistinct distinct words, then up to MaxTail words
\* that repeat earlier ones, are stop words or have one character
AnalyzeTexts ==
    {JoinWords(Distinct(n) \o t) : n \in 0..MaxDistinct, t \in SeqsUpTo(TailVocab, MaxTail)}

InitAnalyze ==
    /\ pc = "analyze"
    /\ stopfile \in SessionStopFiles
    /\ stopwords = load_stopwords(stopfile).stopwords
    /\ url = "u1"
    /\ min_freq \in SliderMin..MaxMinFreq
    /\ selected_chart = "WordCloud"
    /\ event = "start"
    /\ response = NoResponse
    /\ text \in {[isNone |-> FALSE, val |-> t] : t \in AnalyzeTexts}
    /\ top20_words = <<>>
    /\ all_words = <<>>
    /\ display = <<>>
    /\ calls = {}
    /\ seen = {}

\* line 145: top20_words, all_words = get_word_counts(text, min_freq)
Analyze ==
    /\ pc = "analyze"
    /\ LET wc == get_word_counts(text.val, min_freq)
       IN  /\ top20_words' = wc.top20
           /\ all_words' = wc.all
    /\ calls' = calls \cup {"get_word_counts"}
    /\ pc' = "render"
    /\ UNCHANGED <<stopfile, stopwords, url, min_freq, selected_chart, event,
                   response, text, display, seen>>

\* line 158: render_chart(selected_chart, top20_words), for each chart type
Render ==
    /\ pc = "render"
    /\ \E c \in ChartTypes :
         /\ selected_chart' = c
         /\ display' = render_chart(c, top20_words)
    /\ calls' = calls \cup {"render_chart"}
    /\ pc' = "done"
    /\ UNCHANGED <<stopfile, stopwords, url, min_freq, event, response, text,
                   top20_words, all_words, seen>>

NextAnalyze == Analyze \/ Render

SpecAnalyze == InitAnalyze /\ [][NextAnalyze]_vars

\* ================================================================ claims
\* C1: load_stopwords() returns a non-empty set for every outcome of
\* opening and reading stopwords.txt.
C1_NonEmptyStopwords ==
    pc = "main" => stopwords # {}

\* C2: the set returned on any read error is the set returned when the file
\* is not found, and both cases report a warning.
C2_OneFallbackSet ==
    (pc = "main" /\ stopfile.kind # "ok") =>
        /\ stopwords = load_stopwords([kind |-> "FileNotFoundError", lines |-> <<>>]).stopwords
        /\ \E i \in 1..Len(display) : display[i].el = "warning"

Occ(toks, w) == Cardinality({i \in 1..Len(toks) : toks[i] = w})
FirstAt(toks, w) == Min({i \in 1..Len(toks) : toks[i] = w})
Keeps(w) == Len(w) >= 2 /\ w \notin stopwords
\* the tokens of the analysed text and the number of times each occurs
TokenCounts ==
    LET toks == lcut(text.val)
    IN  [toks |-> toks,
         occ |-> [w \in Range(toks) |-> Occ(toks, w)],
         first |-> [w \in Range(toks) |-> FirstAt(toks, w)]]
Analyzed == pc \in {"render", "done"}

\* C3: the full frequency table holds exactly one entry for each distinct
\* token of length >= 2 that is no stop word and occurs at least min_freq
\* times, with that token's number of occurrences as count, and no other entry.
C3_ExactEntries ==
    Analyzed =>
        LET tc == TokenCounts
            entries == {all_words[i] : i \in 1..Len(all_words)}
        IN  /\ Cardinality(entries) = Len(all_words)
            /\ \A e \in entries : \A f \in entries : e[1] = f[1] => e = f
            /\ entries = {<<w, tc.occ[w]>> :
                            w \in {v \in DOMAIN tc.occ : Keeps(v) /\ tc.occ[v] >= min_freq}}

C3_Witness ==
    /\ Analyzed
    /\ all_words # <<>>
    /\ min_freq >= 2
    /\ LET tc == TokenCounts
       IN  /\ \E w \in DOMAIN tc.occ : Len(w) >= 2 /\ w \in stopwords
           /\ \E w \in DOMAIN tc.occ : Len(w) < 2 /\ w # <<SP>>
           /\ \E w \in DOMAIN tc.occ : Keeps(w) /\ tc.occ[w] < min_freq

\* C4: the frequency table is sorted non-increasing by count, and entries of
\* equal count stand in the order of their words' first occurrence in the
\* token stream, also after the min_freq filter.
C4_SortedStable ==
    Analyzed =>
        LET first == TokenCounts.first
        IN  \A i \in 1..Len(all_words) : \A j \in 1..Len(all_words) :
                i < j =>
                    /\ all_words[i][2] >= all_words[j][2]
                    /\ all_words[i][2] = all_words[j][2]
                          => first[all_words[i][1]] < first[all_words[j][1]]

C4_Witness ==
    /\ Analyzed
    /\ min_freq >= 2
    /\ Len(all_words) >= 2
    /\ all_words[1][2] = all_words[2][2]
    /\ LET tc == TokenCounts
       IN  /\ tc.first[all_words[1][1]] < tc.first[all_words[2][1]]
           /\ \E w \in DOMAIN tc.occ : Keeps(w) /\ tc.occ[w] < min_freq

\* C5: the top-K view is the prefix of the full table of length
\* min(20, len(table)), and both are empty when no entry reaches min_freq.
C5_TopKPrefix ==
    Analyzed =>
        /\ Len(top20_words) = IF Len(all_words) < 20 THEN Len(all_words) ELSE 20
        /\ \A i \in 1..Len(top20_words) : top20_words[i] = all_words[i]
        /\ LET occ == TokenCounts.occ
           IN  (\A w \in DOMAIN occ : ~(Keeps(w) /\ occ[w] >= min_freq))
                  => (top20_words = <<>> /\ all_words = <<>>)

C5_Witness ==
    /\ Analyzed
    /\ Len(all_words) > 20
    /\ Len(top20_words) = 20

TheChart == display[1].chart
ChartShown == pc = "done" /\ display # <<>> /\ display[1].el = "chart"

\* C9: each axis of the radar chart has as maximum the largest of the (at
\* most 6) values the chart plots.
C9_RadarMaxOfPlotted ==
    (ChartShown /\ selected_chart = "Radar") =>
        \A i \in 1..Len(TheChart.schema) :
            TheChart.schema[i].max_ = Max(Range(TheChart.data[1]))

C9_Witness ==
    /\ ChartShown
    /\ selected_chart = "Radar"
    /\ Len(top20_words) > 6
    /\ top20_words[1][2] > top20_words[Len(top20_words)][2]

ViewWords == [i \in 1..Len(top20_words) |-> top20_words[i][1]]
ViewCounts == [i \in 1..Len(top20_words) |-> top20_words[i][2]]
ChartLabels ==
    CASE TheChart.type \in {"Bar", "Line", "Scatter"} -> TheChart.xaxis
      [] TheChart.type = "Radar" ->
           [i \in 1..Len(TheChart.schema) |-> TheChart.schema[i].name]
      [] OTHER -> [i \in 1..Len(TheChart.data) |-> TheChart.data[i][1]]
ChartValues ==
    CASE TheChart.type \in {"Bar", "Line", "Scatter"} -> TheChart.yaxis
      [] TheChart.type = "Radar" -> TheChart.data[1]
      [] OTHER -> [i \in 1..Len(TheChart.data) |-> TheChart.data[i][2]]

\* C10: the radar chart has as many axis labels as plotted values, namely
\* min(6, len(view)), and they are the first entries of the view in order;
\* every other chart kind gets all labels and values of the view, in order.
C10_SeriesOfView ==
    ChartShown =>
        /\ TheChart.type = selected_chart
        /\ IF selected_chart = "Radar"
           THEN LET n == IF Len(top20_words) < 6 THEN Len(top20_words) ELSE 6
                IN  /\ Len(ChartLabels) = n
                    /\ Len(ChartValues) = n
                    /\ \A i \in 1..n : /\ ChartLabels[i] = ViewWords[i]
                                       /\ ChartValues[i] = ViewCounts[i]
           ELSE /\ ChartLabels = ViewWords
                /\ ChartValues = ViewCounts

C10_Witness ==
    /\ ChartShown
    /\ selected_chart = "Radar"
    /\ Len(top20_words) > 6
    /\ Len(ChartLabels) = 6

Failed == response.kind \notin {"ok", "none"}
NoDataShown ==
    \E i \in 1..Len(display) : display[i].el = "warning" /\ display[i].msg = "no_data"

\* C6: a run of the script that a change of min_freq triggers issues no
\* HTTP request: the text fetched before is analysed again.
C6_NoRefetch ==
    (pc = "idle" /\ event = "min_freq") => "requests.get" \notin calls

\* C7: whenever a successfully fetched text gives an empty frequency table,
\* also when the cleaned text is the empty string, the no-data warning is
\* shown and no chart is rendered.
C7_EmptyTableWarned ==
    (pc = "idle" /\ response.kind = "ok" /\ ~text.isNone
        /\ get_word_counts(text.val, min_freq).all = <<>>)
      => (NoDataShown /\ ~Shown("chart"))

====
